---- MODULE Spec2Model ----
(***************************************************************************)
(* dali::ThreadPool (dali/pipeline/util/thread_pool.h) as a state machine. *)
(* Threads: the constructing thread, num_thread workers running            *)
(* ThreadMain, and client threads that call DoWorkWithID, WaitForWork and  *)
(* (once) the destructor.  mutex_ is modelled by its owner, the two        *)
(* condition variables by the sets of threads blocked on them.             *)
(***************************************************************************)
EXTENDS Integers, Sequences, FiniteSets, TLC

\* Largest pool size explored (num_thread ranges over -1 .. MaxThreads).
MaxThreads == 2
\* Largest number of DoWorkWithID calls in one run.
MaxItems == 2

\* Largest number of callables (initialisations and Works) that throw in one run.
MaxFailures == 2

Workers == 0 .. (MaxThreads - 1)
Items == 1 .. MaxItems
\* The thread that owns the pool (and destroys it), and another caller.
Clients == {"owner", "user"}
NumThreadChoices == (0 - 1) .. MaxThreads

\* What a callable does when run: return, throw std::runtime_error, throw
\* something else.
Outcomes == {"ok", "runtime_error", "other"}

\* Owners of mutex_.
Free == [w |-> 0 - 1, c |-> "none"]
WOwner(w) == [w |-> w, c |-> "none"]
COwner(c) == [w |-> 0 - 1, c |-> c]

\* e.what() of a failed work item / of a failed CUDA_CALL, and the text of
\* the catch(...) branches.
WorkWhat(item) == <<"what", item>>
InitWhat(w) == <<"cudaSetDevice", w>>
UnknownText == <<"Caught unknown exception", 0>>

VARIABLES
    budget,           \* how many callables may throw in this run
    num_thread,       \* constructor argument
    ctor,             \* position of the constructing thread
    spawned,          \* loop index i of the constructor's spawn loop
    resized,          \* tl_errors_.resize(num_thread) has run
    crashed,          \* the process died on an out-of-bounds / racy access
    wpc,              \* position of each worker in ThreadMain
    cur,              \* the Work a worker holds in its local `work`
    cpc,              \* position of each client thread
    arg,              \* the Work a client is submitting
    check,            \* checkForErrors of a client's current WaitForWork
    dtor,             \* the client running ~ThreadPool, or "none"
    joined,           \* how many threads the destructor has joined
    work_queue_,
    running_,
    work_complete_,
    active_threads_,
    tl_errors_,
    mutex_,           \* owner of mutex_
    condition_,       \* workers blocked in condition_.wait
    completed_,       \* clients blocked in completed_.wait
    stale,            \* workers that have not synchronised since running_ = false
    submitted,        \* history: number of Works handed to DoWorkWithID
    runs,             \* history: per item, its runs (see Run)
    initFailed,       \* history: workers whose initialisation threw
    dtorSubmit,       \* history: DoWorkWithID was called after the destructor
                      \*   was entered
    lateSubmit,       \* history: DoWorkWithID was called after the destructor's
                      \*   WaitForWork(false) had returned
    waitLog           \* history: the first error-checked wait's end if clean,
                      \*   then the errors thrown by WaitForWork, in order

vars == <<budget, num_thread, ctor, spawned, resized, crashed, wpc, cur, cpc, arg, check,
          dtor, joined, work_queue_, running_, work_complete_, active_threads_,
          tl_errors_, mutex_, condition_, completed_, stale, submitted, runs,
          initFailed, dtorSubmit, lateSubmit, waitLog>>

poolVars == <<work_queue_, running_, work_complete_, active_threads_>>
ctorVars == <<budget, num_thread, ctor, spawned, resized>>
histVars == <<submitted, runs, initFailed, dtorSubmit, lateSubmit, waitLog>>

----------------------------------------------------------------------------
\* Helpers

\* threads_.size()
Size == IF num_thread > 0 THEN num_thread ELSE 0

Front_Back(q) == IF q = <<>> THEN 0 ELSE q[Len(q)]
Pop_Keep(q) == q

\* std::queue::front / pop; on an empty queue both are undefined, modelled
\* as yielding no item (0) and leaving the queue empty.
Front(q) == IF q = <<>> THEN 0 ELSE Head(q)
Pop(q) == IF q = <<>> THEN <<>> ELSE Tail(q)

\* "Error in thread " + std::to_string(i) + ": " + tl_errors_[i].front()
ErrorString(i, text) == <<"Error in thread ", i, ": ", text>>

\* The indices the scan of WaitForWork finds non-empty.
NonEmptyErrors(errs) == {i \in 0 .. (Size - 1) : errs[i] # <<>>}

FirstError_Last(errs) ==
    CHOOSE i \in NonEmptyErrors(errs) : \A j \in NonEmptyErrors(errs) : i >= j

\* The index at which the ascending scan of WaitForWork stops.
FirstError(errs) ==
    CHOOSE i \in NonEmptyErrors(errs) : \A j \in NonEmptyErrors(errs) : i <= j

CaughtText_What(outcome, what) == what

\* The text a catch branch pushes for a thrown value.
CaughtText(outcome, what) == IF outcome = "runtime_error" THEN what ELSE UnknownText

WorkAvailable_Always == TRUE

\* condition_.wait predicate of ThreadMain
WorkAvailable == ~(running_ /\ work_queue_ = <<>>)

Drained_QueueOnly(queue, active) == queue = <<>>
Drained_ActiveOnly(queue, active) == active = 0

\* completion test of ThreadMain
Drained(queue, active) == queue = <<>> /\ active = 0

\* History only: the runs of Works that threw, and the number of failures so far.
FailedRuns == {i \in Items : \E n \in 1 .. Len(runs[i]) : runs[i][n][2] # "ok"}
Failures == Cardinality(initFailed) + Cardinality(FailedRuns)

\* What the next callable may do, within the failure bound.
MayDo == IF Failures < budget THEN Outcomes ELSE {"ok"}

Constructed == ctor = "constructed"
Destroyed == dtor # "none" /\ cpc[dtor] = "dt_done"

\* No thread takes a step in a dead process, or on a pool that is gone.
Alive == ~crashed /\ ~Destroyed

----------------------------------------------------------------------------
InitPool ==
    /\ ctor = "members"
    /\ spawned = 0
    /\ resized = FALSE
    /\ crashed = FALSE
    /\ wpc = [w \in Workers |-> "unstarted"]
    /\ cur = [w \in Workers |-> 0]
    /\ cpc = [c \in Clients |-> "idle"]
    /\ arg = [c \in Clients |-> 0]
    /\ check = [c \in Clients |-> FALSE]
    /\ dtor = "none"
    /\ joined = 0
    /\ work_queue_ = <<>>
    /\ running_ = TRUE
    /\ work_complete_ = TRUE
    /\ active_threads_ = 0
    /\ tl_errors_ = [w \in Workers |-> <<>>]
    /\ mutex_ = Free
    /\ condition_ = {}
    /\ completed_ = {}
    /\ stale = {}
    /\ submitted = 0
    /\ runs = [i \in Items |-> <<>>]
    /\ initFailed = {}
    /\ dtorSubmit = FALSE
    /\ lateSubmit = FALSE
    /\ waitLog = <<>>

Init ==
    /\ budget = MaxFailures
    /\ num_thread \in NumThreadChoices
    /\ InitPool

----------------------------------------------------------------------------
\* ThreadPool::ThreadPool

\* threads_(num_thread): a negative count does not fit a vector and throws.
Ctor_Members ==
    /\ Alive
    /\ ctor = "members"
    /\ ctor' = IF num_thread < 0 THEN "failed" ELSE "enforce"
    /\ UNCHANGED <<budget, num_thread, spawned, resized, crashed, wpc, cur, cpc, arg, check,
                   dtor, joined, poolVars, tl_errors_, mutex_, condition_,
                   completed_, stale, histVars>>

EnforceHolds_NonNegative == num_thread >= 0

\* The condition of DALI_ENFORCE.
EnforceHolds == num_thread > 0

\* DALI_ENFORCE(num_thread > 0, ...)
Ctor_Enforce ==
    /\ Alive
    /\ ctor = "enforce"
    /\ ctor' = IF EnforceHolds THEN "spawn" ELSE "failed"
    /\ UNCHANGED <<budget, num_thread, spawned, resized, crashed, wpc, cur, cpc, arg, check,
                   dtor, joined, poolVars, tl_errors_, mutex_, condition_,
                   completed_, stale, histVars>>

\* One iteration of the spawn loop: threads_[i] = std::thread(ThreadMain, i).
Ctor_Spawn ==
    /\ Alive
    /\ ctor = "spawn"
    /\ spawned < num_thread
    /\ wpc' = [wpc EXCEPT ![spawned] = "init"]
    /\ spawned' = spawned + 1
    /\ UNCHANGED <<budget, num_thread, ctor, resized, crashed, cur, cpc, arg, check,
                   dtor, joined, poolVars, tl_errors_, mutex_, condition_,
                   completed_, stale, histVars>>

\* tl_errors_.resize(num_thread), after the loop; the constructor returns.
Ctor_Resize ==
    /\ Alive
    /\ ctor = "spawn"
    /\ spawned = num_thread
    /\ resized' = TRUE
    /\ ctor' = "constructed"
    /\ UNCHANGED <<budget, num_thread, spawned, crashed, wpc, cur, cpc, arg, check,
                   dtor, joined, poolVars, tl_errors_, mutex_, condition_,
                   completed_, stale, histVars>>

----------------------------------------------------------------------------
\* ThreadPool::ThreadMain

\* The push of the initialisation catch branches takes no lock and does not
\* wait for the constructor.  While tl_errors_ has not been resized it is an
\* access past the end of an empty vector that races with the resize: the
\* entry is stored (the resize had taken effect) or the process dies.  A
\* push that races with the scan of WaitForWork lands before or after it.
InitPushRaces == ~resized

InitPushEffects == IF InitPushRaces THEN {"stored", "crash"} ELSE {"stored"}

\* try { CUDA_CALL(cudaSetDevice); SetCPUAffinity } catch ... push
ThreadMain_Init(w) ==
    /\ Alive
    /\ wpc[w] = "init"
    /\ \E outcome \in MayDo :
         IF outcome = "ok"
         THEN /\ wpc' = [wpc EXCEPT ![w] = "loop"]
              /\ UNCHANGED <<tl_errors_, crashed, initFailed>>
         ELSE \E effect \in InitPushEffects :
              /\ initFailed' = initFailed \cup {w}
              /\ crashed' = (effect = "crash")
              /\ tl_errors_' =
                   IF effect = "stored"
                   THEN [tl_errors_ EXCEPT
                           ![w] = Append(@, CaughtText(outcome, InitWhat(w)))]
                   ELSE tl_errors_
              /\ wpc' = [wpc EXCEPT ![w] = "loop"]
    /\ UNCHANGED <<ctorVars, cur, cpc, arg, check, dtor, joined, poolVars, mutex_,
                   condition_, completed_, stale, submitted, runs, dtorSubmit,
                   lateSubmit, waitLog>>

\* The value an unsynchronised read of running_ may yield.
RunningRead(w) == IF w \in stale THEN {running_, TRUE} ELSE {running_}

\* while (running_) { std::unique_lock lock(mutex_);  running_ is read without
\* the lock; when it reads true the worker goes on to take the lock.
ThreadMain_Loop(w) ==
    /\ Alive
    /\ wpc[w] = "loop"
    /\ \E r \in RunningRead(w) :
         IF r
         THEN /\ mutex_ = Free
              /\ mutex_' = WOwner(w)
              /\ stale' = stale \ {w}
              /\ wpc' = [wpc EXCEPT ![w] = "wait"]
         ELSE /\ wpc' = [wpc EXCEPT ![w] = "done"]
              /\ UNCHANGED <<mutex_, stale>>
    /\ UNCHANGED <<ctorVars, crashed, cur, cpc, arg, check, dtor, joined, poolVars,
                   tl_errors_, condition_, completed_, histVars>>

\* The woken worker takes the lock again inside condition_.wait.
ThreadMain_Relock(w) ==
    /\ Alive
    /\ wpc[w] = "relock"
    /\ mutex_ = Free
    /\ mutex_' = WOwner(w)
    /\ stale' = stale \ {w}
    /\ wpc' = [wpc EXCEPT ![w] = "wait"]
    /\ UNCHANGED <<ctorVars, crashed, cur, cpc, arg, check, dtor, joined, poolVars,
                   tl_errors_, condition_, completed_, histVars>>

Increment_Skip(n) == n

\* ++active_threads_
Increment(n) == n + 1

\* condition_.wait(lock, pred): block (releasing the lock) while pred is
\* false.  Then  if (!running_) break;  which destroys `lock`.  Otherwise
\* work = work_queue_.front(); work_queue_.pop(); ++active_threads_;
\* lock.unlock()
ThreadMain_Wait(w) ==
    /\ Alive
    /\ wpc[w] = "wait"
    /\ mutex_ = WOwner(w)
    /\ mutex_' = Free
    /\ IF ~WorkAvailable
       THEN /\ wpc' = [wpc EXCEPT ![w] = "blocked"]
            /\ condition_' = condition_ \cup {w}
            /\ UNCHANGED <<cur, work_queue_, active_threads_>>
       ELSE IF ~running_
       THEN /\ wpc' = [wpc EXCEPT ![w] = "done"]
            /\ UNCHANGED <<cur, work_queue_, active_threads_, condition_>>
       ELSE /\ cur' = [cur EXCEPT ![w] = Front(work_queue_)]
            /\ work_queue_' = Pop(work_queue_)
            /\ active_threads_' = Increment(active_threads_)
            /\ wpc' = [wpc EXCEPT ![w] = "exec"]
            /\ UNCHANGED condition_
    /\ UNCHANGED <<ctorVars, crashed, cpc, arg, check, dtor, joined, running_,
                   work_complete_, tl_errors_, completed_, stale, histVars>>

\* History only: a run of a Work is logged with its Outcome and, when it
\* threw, with the worker that ran it.
Run(w, outcome) == IF outcome = "ok" THEN <<0 - 1, outcome>> ELSE <<w, outcome>>

AfterWork_NoCatch(outcome) == "fin"

\* Where the worker goes after work(thread_id).
AfterWork(outcome) == IF outcome = "ok" THEN "fin" ELSE "catch"

\* try { work(thread_id); } : run outside the lock; the Work returns or throws.
ThreadMain_Exec(w) ==
    /\ Alive
    /\ wpc[w] = "exec"
    /\ \E outcome \in MayDo :
         /\ wpc' = [wpc EXCEPT ![w] = AfterWork(outcome)]
         /\ runs' = [i \in Items |->
                       IF i = cur[w] THEN Append(runs[i], Run(w, outcome)) ELSE runs[i]]
    /\ UNCHANGED <<ctorVars, crashed, cur, cpc, arg, check, dtor, joined, poolVars,
                   tl_errors_, mutex_, condition_, completed_, stale, submitted,
                   initFailed, dtorSubmit, lateSubmit, waitLog>>

\* The Outcome of the run the worker has just finished.
Thrown(w) == IF cur[w] \in Items /\ runs[cur[w]] # <<>>
             THEN runs[cur[w]][Len(runs[cur[w]])][2]
             ELSE "other"

\* catch (...) { lock.lock(); tl_errors_[thread_id].push(...);
\* lock.unlock(); } : the critical section of either catch branch.
ThreadMain_Catch(w) ==
    /\ Alive
    /\ wpc[w] = "catch"
    /\ mutex_ = Free
    /\ tl_errors_' = [tl_errors_ EXCEPT
                        ![w] = Append(@, CaughtText(Thrown(w), WorkWhat(cur[w])))]
    /\ stale' = stale \ {w}
    /\ wpc' = [wpc EXCEPT ![w] = "fin"]
    /\ UNCHANGED <<ctorVars, crashed, cur, cpc, arg, check, dtor, joined, poolVars,
                   mutex_, condition_, completed_, histVars>>

\* completed_.notify_one(): wakes one of the blocked waiters, if any.
NotifyCompleted(c) ==
    /\ c \in completed_
    /\ completed_' = completed_ \ {c}
    /\ cpc' = [cpc EXCEPT ![c] = "wf_relock"]

\* lock.lock(); --active_threads_; if (work_queue_.empty() &&
\* active_threads_ == 0) { work_complete_ = true; completed_.notify_one(); }
\* then the loop body ends and `lock` is destroyed: one critical section.
ThreadMain_Complete(w) ==
    /\ Alive
    /\ wpc[w] = "fin"
    /\ mutex_ = Free
    /\ active_threads_' = active_threads_ - 1
    /\ IF Drained(work_queue_, active_threads_ - 1)
       THEN /\ work_complete_' = TRUE
            /\ IF completed_ = {}
               THEN UNCHANGED <<completed_, cpc>>
               ELSE \E c \in completed_ : NotifyCompleted(c)
       ELSE UNCHANGED <<work_complete_, completed_, cpc>>
    /\ stale' = stale \ {w}
    /\ cur' = [cur EXCEPT ![w] = 0]
    /\ wpc' = [wpc EXCEPT ![w] = "loop"]
    /\ UNCHANGED <<ctorVars, crashed, arg, check, dtor, joined, work_queue_,
                   running_, tl_errors_, mutex_, condition_, histVars>>

\* A condition variable may wake a blocked thread without a notification.
ThreadMain_SpuriousWake(w) ==
    /\ Alive
    /\ wpc[w] = "blocked"
    /\ w \in condition_
    /\ condition_' = condition_ \ {w}
    /\ wpc' = [wpc EXCEPT ![w] = "relock"]
    /\ UNCHANGED <<ctorVars, crashed, cur, cpc, arg, check, dtor, joined, poolVars,
                   tl_errors_, mutex_, completed_, stale, histVars>>

----------------------------------------------------------------------------
\* ThreadPool::DoWorkWithID

\* History only: the destructor has been entered and its WaitForWork(false)
\* has returned.
DtorWaitOver == dtor # "none" /\ cpc[dtor] \notin {"wf_wait", "wf_blocked", "wf_relock"}

\* The call: std::lock_guard lock(mutex_)
DoWorkWithID_Lock(c) ==
    /\ Alive
    /\ Constructed
    /\ cpc[c] = "idle"
    /\ submitted < MaxItems
    /\ mutex_ = Free
    /\ mutex_' = COwner(c)
    /\ submitted' = submitted + 1
    /\ arg' = [arg EXCEPT ![c] = submitted + 1]
    /\ dtorSubmit' = (dtorSubmit \/ dtor # "none")
    /\ lateSubmit' = (lateSubmit \/ DtorWaitOver)
    /\ cpc' = [cpc EXCEPT ![c] = "dw_push"]
    /\ UNCHANGED <<ctorVars, crashed, wpc, cur, check, dtor, joined, poolVars,
                   tl_errors_, condition_, completed_, stale, runs, initFailed,
                   waitLog>>

\* work_queue_.push(work)
DoWorkWithID_Push(c) ==
    /\ Alive
    /\ cpc[c] = "dw_push"
    /\ mutex_ = COwner(c)
    /\ work_queue_' = Append(work_queue_, arg[c])
    /\ cpc' = [cpc EXCEPT ![c] = "dw_flag"]
    /\ UNCHANGED <<ctorVars, crashed, wpc, cur, arg, check, dtor, joined, running_,
                   work_complete_, active_threads_, tl_errors_, mutex_, condition_,
                   completed_, stale, histVars>>

CompleteAfterPush_Unchanged == work_complete_

\* The value DoWorkWithID stores in work_complete_.
CompleteAfterPush == FALSE

\* work_complete_ = false; the block ends and the lock_guard is destroyed.
DoWorkWithID_Flag(c) ==
    /\ Alive
    /\ cpc[c] = "dw_flag"
    /\ mutex_ = COwner(c)
    /\ work_complete_' = CompleteAfterPush
    /\ mutex_' = Free
    /\ cpc' = [cpc EXCEPT ![c] = "dw_notify"]
    /\ UNCHANGED <<ctorVars, crashed, wpc, cur, arg, check, dtor, joined,
                   work_queue_, running_, active_threads_, tl_errors_, condition_,
                   completed_, stale, histVars>>

NotifyOneTargets_None == {}

\* The workers condition_.notify_one() may wake: one of the blocked ones.
NotifyOneTargets == condition_

\* condition_.notify_one(), after the lock is released; the call returns.
DoWorkWithID_Notify(c) ==
    /\ Alive
    /\ cpc[c] = "dw_notify"
    /\ IF NotifyOneTargets = {}
       THEN UNCHANGED <<condition_, wpc>>
       ELSE \E w \in NotifyOneTargets :
              /\ condition_' = condition_ \ {w}
              /\ wpc' = [wpc EXCEPT ![w] = "relock"]
    /\ arg' = [arg EXCEPT ![c] = 0]
    /\ cpc' = [cpc EXCEPT ![c] = "idle"]
    /\ UNCHANGED <<ctorVars, crashed, cur, check, dtor, joined, poolVars,
                   tl_errors_, mutex_, completed_, stale, histVars>>

----------------------------------------------------------------------------
\* ThreadPool::WaitForWork

\* The owner waits with or without the error check, the other caller with it.
WaitModes(c) == IF c = "owner" THEN BOOLEAN ELSE {TRUE}

\* The call: std::unique_lock lock(mutex_)
WaitForWork_Lock(c) ==
    /\ Alive
    /\ Constructed
    /\ cpc[c] = "idle"
    /\ mutex_ = Free
    /\ mutex_' = COwner(c)
    /\ \E checkForErrors \in WaitModes(c) : check' = [check EXCEPT ![c] = checkForErrors]
    /\ cpc' = [cpc EXCEPT ![c] = "wf_wait"]
    /\ UNCHANGED <<ctorVars, crashed, wpc, cur, arg, dtor, joined, poolVars,
                   tl_errors_, condition_, completed_, stale, histVars>>

\* The woken waiter takes the lock again inside completed_.wait.
WaitForWork_Relock(c) ==
    /\ Alive
    /\ cpc[c] = "wf_relock"
    /\ mutex_ = Free
    /\ mutex_' = COwner(c)
    /\ cpc' = [cpc EXCEPT ![c] = "wf_wait"]
    /\ UNCHANGED <<ctorVars, crashed, wpc, cur, arg, check, dtor, joined, poolVars,
                   tl_errors_, condition_, completed_, stale, histVars>>

\* A condition variable may wake a blocked thread without a notification.
WaitForWork_SpuriousWake(c) ==
    /\ Alive
    /\ cpc[c] = "wf_blocked"
    /\ c \in completed_
    /\ completed_' = completed_ \ {c}
    /\ cpc' = [cpc EXCEPT ![c] = "wf_relock"]
    /\ UNCHANGED <<ctorVars, crashed, wpc, cur, arg, check, dtor, joined, poolVars,
                   tl_errors_, mutex_, condition_, stale, histVars>>

ScanThrows_Always(checkForErrors, errs) == NonEmptyErrors(errs) # {}

\* Whether the scan is entered and finds an error to throw.
ScanThrows(checkForErrors, errs) == checkForErrors /\ NonEmptyErrors(errs) # {}

\* The string thrown: the front of the first non-empty sequence.
ScanError(errs) == ErrorString(FirstError(errs), Head(errs[FirstError(errs)]))

\* tl_errors_[i].pop() for that sequence.
ScanPop(errs) == [errs EXCEPT ![FirstError(errs)] = Tail(@)]

\* History only: an error-checked wait that returned without throwing is
\* logged when it is the first error-checked wait to end.
Clean == <<"clean">>
LogClean(log) == IF log = <<>> THEN <<Clean>> ELSE log

WorkComplete_Always == TRUE

\* The predicate of completed_.wait in WaitForWork.
WorkComplete == work_complete_

\* completed_.wait(lock, [this] { return work_complete_; }): block (releasing
\* the lock) while the flag is false.  Then  if (checkForErrors) { for ...
\* throw }: the function returns or throws, and `lock` is destroyed either
\* way.
WaitForWork_Wait(c) ==
    /\ Alive
    /\ cpc[c] = "wf_wait"
    /\ mutex_ = COwner(c)
    /\ mutex_' = Free
    /\ IF ~WorkComplete
       THEN /\ cpc' = [cpc EXCEPT ![c] = "wf_blocked"]
            /\ completed_' = completed_ \cup {c}
            /\ UNCHANGED <<check, tl_errors_, waitLog>>
       ELSE /\ IF ScanThrows(check[c], tl_errors_)
               THEN /\ waitLog' = Append(waitLog, ScanError(tl_errors_))
                    /\ tl_errors_' = ScanPop(tl_errors_)
               ELSE /\ waitLog' = IF check[c] THEN LogClean(waitLog) ELSE waitLog
                    /\ UNCHANGED tl_errors_
            /\ check' = [check EXCEPT ![c] = FALSE]
            /\ cpc' = [cpc EXCEPT ![c] = IF dtor = c THEN "dt_lock" ELSE "idle"]
            /\ UNCHANGED completed_
    /\ UNCHANGED <<ctorVars, crashed, wpc, cur, arg, dtor, joined, poolVars,
                   condition_, stale, submitted, runs, initFailed, dtorSubmit,
                   lateSubmit>>

----------------------------------------------------------------------------
\* ThreadPool::~ThreadPool

\* The destructor's first statement, WaitForWork(false), takes the lock.
Dtor_Begin(c) ==
    /\ Alive
    /\ Constructed
    /\ c = "owner"
    /\ dtor = "none"
    /\ cpc[c] = "idle"
    /\ mutex_ = Free
    /\ mutex_' = COwner(c)
    /\ dtor' = c
    /\ check' = [check EXCEPT ![c] = FALSE]
    /\ cpc' = [cpc EXCEPT ![c] = "wf_wait"]
    /\ UNCHANGED <<ctorVars, crashed, wpc, cur, arg, joined, poolVars, tl_errors_,
                   condition_, completed_, stale, histVars>>

\* std::unique_lock lock(mutex_); running_ = false;
\* condition_.notify_all(); lock.unlock() : one critical section.
Dtor_Stop(c) ==
    /\ Alive
    /\ cpc[c] = "dt_lock"
    /\ mutex_ = Free
    /\ running_' = FALSE
    /\ condition_' = {}
    /\ wpc' = [w \in Workers |-> IF w \in condition_ THEN "relock" ELSE wpc[w]]
    /\ stale' = {w \in Workers : wpc[w] \notin {"unstarted", "done"}}
    /\ cpc' = [cpc EXCEPT ![c] = "dt_join"]
    /\ UNCHANGED <<ctorVars, crashed, cur, arg, check, dtor, joined, work_queue_,
                   work_complete_, active_threads_, tl_errors_, mutex_, completed_,
                   histVars>>

\* One iteration of: for (auto &thread : threads_) thread.join();
Dtor_Join(c) ==
    /\ Alive
    /\ cpc[c] = "dt_join"
    /\ joined < Size
    /\ wpc[joined] = "done"
    /\ joined' = joined + 1
    /\ UNCHANGED <<ctorVars, crashed, wpc, cur, cpc, arg, check, dtor, poolVars,
                   tl_errors_, mutex_, condition_, completed_, stale, histVars>>

\* nvml::Shutdown(); the pool is gone.
Dtor_Shutdown(c) ==
    /\ Alive
    /\ cpc[c] = "dt_join"
    /\ joined = Size
    /\ cpc' = [cpc EXCEPT ![c] = "dt_done"]
    /\ UNCHANGED <<ctorVars, crashed, wpc, cur, arg, check, dtor, joined, poolVars,
                   tl_errors_, mutex_, condition_, completed_, stale, histVars>>

----------------------------------------------------------------------------
Ctor == Ctor_Members \/ Ctor_Enforce \/ Ctor_Spawn \/ Ctor_Resize

ThreadMain(w) ==
    \/ ThreadMain_Init(w)
    \/ ThreadMain_Loop(w)
    \/ ThreadMain_Relock(w)
    \/ ThreadMain_Wait(w)
    \/ ThreadMain_Exec(w)
    \/ ThreadMain_Catch(w)
    \/ ThreadMain_Complete(w)

\* The steps of a call in progress.
ClientStep(c) ==
    \/ DoWorkWithID_Push(c)
    \/ DoWorkWithID_Flag(c)
    \/ DoWorkWithID_Notify(c)
    \/ WaitForWork_Wait(c)
    \/ WaitForWork_Relock(c)
    \/ Dtor_Stop(c)
    \/ Dtor_Join(c)
    \/ Dtor_Shutdown(c)

\* The calls a client may start.
ClientCall(c) ==
    \/ DoWorkWithID_Lock(c)
    \/ WaitForWork_Lock(c)
    \/ Dtor_Begin(c)

Spurious ==
    \/ \E w \in Workers : ThreadMain_SpuriousWake(w)
    \/ \E c \in Clients : WaitForWork_SpuriousWake(c)

Next ==
    \/ Ctor
    \/ \E w \in Workers : ThreadMain(w)
    \/ \E c \in Clients : ClientStep(c)
    \/ \E c \in Clients : ClientCall(c)
    \/ Spurious

Spec == Init /\ [][Next]_vars

----------------------------------------------------------------------------
\* The pool in use before its destructor is entered, under fair scheduling:
\* a thread that can take a step of the constructor, of ThreadMain or of a
\* call in progress eventually takes it, and a thread waiting for mutex_
\* eventually gets it.  Nothing forces a client to start a call, and nothing
\* forces a spurious wake-up.

\* Largest number of callables that throw in one run of LiveSpec.
LiveFailures == 1

LiveInit ==
    /\ budget = LiveFailures
    /\ num_thread \in 1 .. MaxThreads
    /\ InitPool

LiveClientStep(c) ==
    \/ DoWorkWithID_Push(c)
    \/ DoWorkWithID_Flag(c)
    \/ DoWorkWithID_Notify(c)
    \/ WaitForWork_Wait(c)
    \/ WaitForWork_Relock(c)

\* Both clients submit; the owner also waits.
LiveClientCall(c) ==
    \/ DoWorkWithID_Lock(c)
    \/ c = "owner" /\ WaitForWork_Lock(c)

LiveNext ==
    \/ Ctor
    \/ \E w \in Workers : ThreadMain(w)
    \/ \E c \in Clients : LiveClientStep(c)
    \/ \E c \in Clients : LiveClientCall(c)
    \/ Spurious

Fairness ==
    /\ WF_vars(Ctor)
    /\ \A w \in Workers : SF_vars(ThreadMain(w))
    /\ \A c \in Clients : SF_vars(LiveClientStep(c))

LiveSpec == LiveInit /\ [][LiveNext]_vars /\ Fairness

----------------------------------------------------------------------------
\* History only: the items pushed on work_queue_ so far, and those whose
\* DoWorkWithID call has returned.
PushedItems == {i \in 1 .. submitted : \A c \in Clients : ~(arg[c] = i /\ cpc[c] = "dw_push")}
ReturnedItems == {i \in 1 .. submitted : \A c \in Clients : arg[c] # i}

\* The step in which a WaitForWork call of client c returns or throws.
WaitReturns(c) == cpc[c] = "wf_wait" /\ cpc'[c] \in {"idle", "dt_lock"}

\* C1: whenever WaitForWork returns or throws (the destructor's wait
\* included), work_queue_ is empty, active_threads_ is 0 and every item pushed
\* so far, hence every item whose DoWorkWithID had completed before the wait
\* began, has been run exactly once.
C1_WaitReturnsDrained ==
    [][\A c \in Clients :
          WaitReturns(c) =>
             /\ work_queue_' = <<>>
             /\ active_threads_' = 0
             /\ \A i \in PushedItems : Len(runs'[i]) = 1]_vars

\* C1: the destructor's wait has just returned after every item was submitted
\* and run on a pool of the largest size.
C1_Witness ==
    /\ cpc["owner"] = "dt_lock"
    /\ num_thread = MaxThreads
    /\ ReturnedItems = Items
    /\ \A i \in Items : Len(runs[i]) = 1

\* C3: in every state in which no thread holds mutex_, the initial one
\* included, work_complete_ is true iff work_queue_ is empty and
\* active_threads_ is 0.
C3_WorkCompleteIffDrained ==
    mutex_ = Free => (work_complete_ <=> (work_queue_ = <<>> /\ active_threads_ = 0))

\* C3: with the mutex free, the flag was lowered by a submission, and raised
\* again by the completion step of the worker that ran the last item.
C3_Witness ==
    /\ mutex_ = Free
    /\ work_complete_
    /\ submitted = MaxItems
    /\ \A i \in Items : Len(runs[i]) = 1

\* C2: under fair scheduling and before the destructor is entered, every
\* item appended to work_queue_ by DoWorkWithID is eventually popped and run
\* by a worker.
C2_SubmittedEventuallyRuns == \A i \in Items : (i \in PushedItems) ~> (runs[i] # <<>>)

\* C2: more items than workers: a pool of one worker has run every item.
C2_Witness ==
    /\ num_thread = 1
    /\ submitted = MaxItems
    /\ \A i \in Items : runs[i] # <<>>

----------------------------------------------------------------------------
\* The destructor

\* Some worker has left the loop of ThreadMain.
WorkerLeft == \E w \in Workers : wpc[w] = "done"

\* The step in which the destructor stores running_ = false, and the step in
\* which a worker leaves its loop.
DtorStops(c) == cpc[c] = "dt_lock" /\ cpc'[c] = "dt_join"
WorkerExits(w) == wpc[w] # "done" /\ wpc'[w] = "done"

\* C4: once the destructor has been entered, as long as no DoWorkWithID call
\* has been made after its wait returned (in particular when none is made
\* after it started), a worker has left its loop or a thread has been joined
\* only if every submitted item has been run, exactly once: none is dropped.
C4_DtorDrainsBeforeStop ==
    (dtor # "none" /\ ~lateSubmit) =>
        ((WorkerLeft \/ joined > 0) => \A i \in 1 .. submitted : Len(runs[i]) = 1)

\* C4: the destructor found work pending, blocked in its wait, and has been
\* woken by the completion of the last item; no worker has left yet.
C4_Witness ==
    /\ dtor = "owner"
    /\ cpc["owner"] = "wf_relock"
    /\ ~lateSubmit
    /\ work_complete_
    /\ submitted = MaxItems
    /\ \A i \in Items : Len(runs[i]) = 1
    /\ ~WorkerLeft

----------------------------------------------------------------------------
\* Errors

\* History only: the errors thrown by WaitForWork so far, in order.
RaisedErrors == SelectSeq(waitLog, LAMBDA e : e # Clean)

\* The step in which an error-checked WaitForWork of client c returns or throws.
CheckedReturn(c) == WaitReturns(c) /\ check[c]

\* Item i, run by worker k, threw a std::runtime_error and nothing else failed.
SoleFailure(i, k) ==
    /\ initFailed = {}
    /\ FailedRuns = {i}
    /\ runs[i] = << <<k, "runtime_error">> >>

\* C6: when item i threw message WorkWhat(i) on worker k and nothing else
\* failed, an error-checked WaitForWork that ends throws "Error in thread k:
\* " followed by that message if no error has been thrown yet (so the error
\* was recorded before the completion became observable), and returns cleanly,
\* leaving the errors alone, if it has.
C6_SoleFailureRaisedOnce ==
    [][\A c \in Clients, i \in Items, k \in Workers :
          (CheckedReturn(c) /\ SoleFailure(i, k)) =>
             IF RaisedErrors = <<>>
             THEN waitLog' = Append(waitLog, <<"Error in thread ", k, ": ", WorkWhat(i)>>)
             ELSE waitLog' = waitLog /\ tl_errors_' = tl_errors_]_vars

\* C6: the sole failure has been thrown by one error-checked wait and another
\* error-checked wait is about to return.
C6_Witness ==
    \E i \in Items, k \in Workers, c \in Clients :
        /\ SoleFailure(i, k)
        /\ RaisedErrors = << <<"Error in thread ", k, ": ", WorkWhat(i)>> >>
        /\ cpc[c] = "wf_wait"
        /\ check[c]
        /\ mutex_ = COwner(c)
        /\ work_complete_

\* C7: an error-checked WaitForWork that ends throws the oldest error of the
\* lowest-indexed worker that has one and removes exactly that entry; when
\* no worker has one it throws nothing and leaves the errors alone.
C7_LowestIndexOldestFirst ==
    [][\A c \in Clients :
          CheckedReturn(c) =>
             LET pending == {i \in 0 .. (Size - 1) : tl_errors_[i] # <<>>}
             IN  IF pending = {}
                 THEN tl_errors_' = tl_errors_ /\ RaisedErrors' = RaisedErrors
                 ELSE \E k \in pending :
                        /\ \A j \in pending : k <= j
                        /\ waitLog' = Append(waitLog,
                              <<"Error in thread ", k, ": ", Head(tl_errors_[k])>>)
                        /\ tl_errors_' = [tl_errors_ EXCEPT ![k] = Tail(@)]]_vars

\* C7: items 1 and 2 both threw, the later one on worker 0; one wait has
\* thrown worker 0's error and worker 1's is still recorded.
C7_Witness ==
    /\ RaisedErrors = << <<"Error in thread ", 0, ": ", WorkWhat(2)>> >>
    /\ tl_errors_[0] = <<>>
    /\ tl_errors_[1] = <<WorkWhat(1)>>

\* C8 as stated, for a pool to which no work is ever submitted: the errors
\* thrown by successive error-checked waits come in ascending worker index.
C8_Original ==
    submitted = 0 =>
        \A m, n \in 1 .. Len(RaisedErrors) :
            m < n => RaisedErrors[m][2] <= RaisedErrors[n][2]

\* The steps of a WaitForWork(false) call of client c.
UncheckedWaitStep(c) ==
    \/ cpc[c] = "idle" /\ cpc'[c] = "wf_wait" /\ ~check'[c]
    \/ cpc[c] \in {"wf_wait", "wf_relock"} /\ cpc'[c] # cpc[c] /\ ~check[c]

\* C9: no step of a WaitForWork(false) call, the destructor's included,
\* throws or changes the recorded errors, the queue, running_, work_complete_
\* or active_threads_.
C9_UncheckedWaitTouchesNothing ==
    [][\A c \in Clients :
          UncheckedWaitStep(c) =>
             UNCHANGED <<tl_errors_, waitLog, work_queue_, running_,
                         work_complete_, active_threads_>>]_vars

\* C9: the destructor's WaitForWork(false) has returned while an error is
\* recorded that no wait has thrown.
C9_Witness ==
    /\ cpc["owner"] = "dt_lock"
    /\ RaisedErrors = <<>>
    /\ \E w \in Workers : tl_errors_[w] # <<>>

\* C10 as stated: when the initialisation of worker w is the only failure,
\* the first error-checked WaitForWork to end throws a message naming w.
C10_Original ==
    \A w \in Workers :
        (initFailed = {w} /\ FailedRuns = {} /\ ~crashed /\ waitLog # <<>>) =>
            waitLog[1] \in {<<"Error in thread ", w, ": ", InitWhat(w)>>,
                            <<"Error in thread ", w, ": ", UnknownText>>}

----------------------------------------------------------------------------
\* The worker loop

\* The steps of worker w: the run of its item, its catch branch, its
\* completion step.
ExecStep(w) == wpc[w] = "exec" /\ wpc'[w] # "exec"
CatchStep(w) == wpc[w] = "catch" /\ wpc'[w] # "catch"
CompleteStep(w) == wpc[w] = "fin" /\ wpc'[w] # "fin"

\* The item worker w holds threw when it was run.
ItemThrew(w) == cur[w] \in FailedRuns

\* C11: a run that throws takes worker k to its catch branch; the catch
\* branch appends exactly one entry to tl_errors_[k], the item's message for
\* a std::runtime_error and the generic text otherwise, and changes no other
\* sequence, no other worker's position or item, and none of the queue and
\* the counters; the completion step that follows decrements active_threads_
\* and takes the worker back to the head of its loop.
C11_FailureRecordedOnce ==
    [][\A k \in Workers :
          /\ (ExecStep(k) /\ cur[k] \in FailedRuns') => wpc'[k] = "catch"
          /\ CatchStep(k) =>
                /\ tl_errors_' = [tl_errors_ EXCEPT ![k] =
                      Append(@, IF runs[cur[k]][1][2] = "runtime_error"
                                THEN WorkWhat(cur[k])
                                ELSE <<"Caught unknown exception", 0>>)]
                /\ wpc'[k] = "fin"
                /\ \A v \in Workers \ {k} : wpc'[v] = wpc[v] /\ cur'[v] = cur[v]
                /\ UNCHANGED <<work_queue_, running_, work_complete_, active_threads_>>
          /\ (CompleteStep(k) /\ ItemThrew(k)) =>
                /\ active_threads_' = active_threads_ - 1
                /\ wpc'[k] = "loop"
                /\ tl_errors_' = tl_errors_]_vars

\* C11: on a pool of one worker, item 1 threw something that is no
\* std::runtime_error, the generic text was recorded, and the same worker has
\* gone on to run item 2.
C11_Witness ==
    /\ num_thread = 1
    /\ runs[1] = << <<0, "other">> >>
    /\ tl_errors_[0] = << <<"Caught unknown exception", 0>> >>
    /\ runs[2] # <<>>

\* How often item i occurs in queue q, and the workers that hold item i.
Occurrences(q, i) == Cardinality({n \in 1 .. Len(q) : q[n] = i})
Holders(i) == {w \in Workers : cur[w] = i}

\* C12: every item pushed so far is in exactly one place: once in
\* work_queue_, or popped by one worker that has not run it yet, or run once;
\* and at most one worker ever holds it.  So no item is removed by two
\* workers or run twice.
C12_EachItemOnce ==
    \A i \in PushedItems :
        /\ Occurrences(work_queue_, i)
             + Cardinality({w \in Holders(i) : wpc[w] = "exec"})
             + Len(runs[i]) = 1
        /\ Cardinality(Holders(i)) <= 1

\* C12: two workers have popped at the same time, and hold different items.
C12_Witness ==
    /\ wpc[0] = "exec"
    /\ wpc[1] = "exec"
    /\ cur[0] \in Items
    /\ cur[1] \in Items
    /\ cur[0] # cur[1]

\* Items are numbered in the order in which DoWorkWithID appended them.
Queued(i) == Occurrences(work_queue_, i) > 0

\* C13: work_queue_ holds its items in the order in which they were
\* appended, every item that has left the queue was appended before every
\* item still in it (so items leave in the order of their appends), and an
\* item that has been run has left the queue.
C13_FifoOrder ==
    /\ \A m, n \in 1 .. Len(work_queue_) : m < n => work_queue_[m] < work_queue_[n]
    /\ \A i, j \in PushedItems : (~Queued(i) /\ Queued(j)) => i < j
    /\ \A i \in Items : runs[i] # <<>> => ~Queued(i)

\* C13: the item appended first has been popped and run while the item
\* appended after it is still queued.
C13_Witness ==
    /\ runs[1] # <<>>
    /\ work_queue_ = <<2>>

----------------------------------------------------------------------------
\* Waiters on completed_

\* Client c is blocked in completed_.wait although the pool is drained and
\* idle, and no submission is in progress.
Abandoned(c) ==
    /\ cpc[c] = "wf_blocked"
    /\ c \in completed_
    /\ work_complete_
    /\ work_queue_ = <<>>
    /\ active_threads_ = 0
    /\ \A d \in Clients : cpc[d] \notin {"dw_push", "dw_flag"}

\* Such a waiter stays blocked: only a new submission or a spurious wake-up
\* (a wake-up that is no step of a worker) ends that state.  No fairness
\* makes either happen.
AbandonedStays ==
    [][\A c \in Clients :
          Abandoned(c) =>
             \/ Abandoned(c)'
             \/ submitted' # submitted
             \/ cpc'[c] = "wf_relock" /\ UNCHANGED <<wpc, active_threads_>>]_vars

\* C14 as stated, in the form a finite run refutes: with no work submitted
\* since the destructor was entered, the destructor is never blocked in its
\* wait on a drained and idle pool (a state that only new work or a spurious
\* wake-up ends, so that running_ stays true, no worker leaves its loop and
\* no join returns).
C14_Original == ~(dtor = "owner" /\ ~dtorSubmit /\ Abandoned("owner"))

----------------------------------------------------------------------------
\* Construction

\* C15: a construction with num_thread <= 0 never gets past its argument
\* checks: the constructor is evaluating them or has failed, it never
\* returns a pool, and no worker is ever started.
C15_NonPositiveCountFails ==
    num_thread <= 0 =>
        /\ ctor \in {"members", "enforce", "failed"}
        /\ spawned = 0
        /\ \A w \in Workers : wpc[w] = "unstarted"

\* C15: DALI_ENFORCE has rejected a thread count of 0.
C15_Witness ==
    /\ num_thread = 0
    /\ ctor = "failed"

----------------------------------------------------------------------------
\* Locking

\* The data the mutex is meant to protect.
SharedData == <<work_queue_, running_, work_complete_, active_threads_, tl_errors_>>

\* The thread taking the step holds mutex_ before it, or mutex_ is free for
\* it to take.
StepMayHoldMutex ==
    \/ mutex_ = Free
    \/ \E w \in Workers : mutex_ = WOwner(w) /\ wpc'[w] # wpc[w]
    \/ \E c \in Clients : mutex_ = COwner(c) /\ cpc'[c] # cpc[c]

\* C16 as stated: no step writes the queue, the flags, the counter or an
\* error sequence while another thread holds mutex_.
C16_Original == [][SharedData' # SharedData => StepMayHoldMutex]_vars

\* C17 as stated, in the form a finite run refutes: with the destructor not
\* involved, no caller of WaitForWork is left blocked on a drained and idle
\* pool (a state that only new work or a spurious wake-up ends).
C17_Original == \A c \in Clients : ~(dtor = "none" /\ Abandoned(c))

\* tl_errors_.size(): the registry is empty until the constructor resizes it.
RegistrySize == IF resized THEN Size ELSE 0

\* The step in which worker w appends the failure of its initialisation.
InitAppend(w) == wpc[w] = "init" /\ wpc'[w] = "loop" /\ w \in initFailed'

\* C18 as stated: a worker appends to tl_errors_[w] only when the registry
\* holds at least w + 1 sequences.
C18_Original == [][\A w \in Workers : InitAppend(w) => RegistrySize >= w + 1]_vars

\* The workers between their pop and their completion step.
Busy == {w \in Workers : wpc[w] \in {"exec", "catch", "fin"}}

\* C19: active_threads_ is the number of workers that have popped an item
\* and not yet performed their completion step, and lies between 0 and the
\* pool size.
C19_ActiveCountsBusy ==
    /\ active_threads_ = Cardinality(Busy)
    /\ 0 <= active_threads_
    /\ active_threads_ <= Size

\* C19: every worker of the largest pool is counted, one of them in its
\* catch branch and one past its run, before its decrement.
C19_Witness ==
    /\ active_threads_ = MaxThreads
    /\ \E w, v \in Workers : wpc[w] = "catch" /\ wpc[v] = "fin"

\* The steps worker w takes out of condition_.wait while it holds the lock:
\* it pops, it leaves the loop, or it blocks (again).
PopStep(w) == wpc[w] = "wait" /\ wpc'[w] = "exec"
BreakStep(w) == wpc[w] = "wait" /\ wpc'[w] = "done"
BlockStep(w) == wpc[w] = "wait" /\ wpc'[w] = "blocked"

\* C20: a worker that reaches front()/pop() finds work_queue_ non-empty and
\* takes its head; a worker that finds running_ false leaves the loop without
\* touching the queue; a worker that finds the queue empty while running_ is
\* true goes (back) to waiting and does not touch it either.
C20_NeverPopsEmpty ==
    [][\A w \in Workers :
          /\ PopStep(w) =>
                /\ work_queue_ # <<>>
                /\ cur'[w] = Head(work_queue_)
                /\ work_queue_' = Tail(work_queue_)
          /\ BreakStep(w) => (~running_ /\ work_queue_' = work_queue_)
          /\ (wpc[w] = "wait" /\ wpc'[w] # "wait" /\ running_ /\ work_queue_ = <<>>) =>
                (BlockStep(w) /\ work_queue_' = work_queue_)]_vars

\* C20: worker v has popped the only item; worker w holds the lock in
\* condition_.wait and finds the queue empty with running_ true.
C20_Witness ==
    \E w, v \in Workers :
        /\ wpc[v] = "exec"
        /\ cur[v] \in Items
        /\ wpc[w] = "wait"
        /\ mutex_ = WOwner(w)
        /\ running_
        /\ work_queue_ = <<>>

====
